---- MODULE Spec2Model ----
(***************************************************************************)
(* C header generation of swift-bridge-ir:                                 *)
(*   crates/swift-bridge-ir/src/codegen/generate_c_header.rs               *)
(*                                                                         *)
(* SwiftBridgeModule::generate_c_header walks the module's types and       *)
(* functions once, appends one "\n"-terminated declaration per walked item *)
(* to `header`, records required includes and slice element types in a     *)
(* Bookkeeping value, then prepends the slice wrapper typedefs, the        *)
(* include lines and finally the notice.                                   *)
(*                                                                         *)
(* The generated text is kept as the sequence of its lines; every line is  *)
(* the real string the code formats (each element stands for that string   *)
(* followed by "\n").  The walk is one action per loop iteration.  The     *)
(* module is generated twice (call = 1, 2) so that the two texts can be    *)
(* compared.                                                               *)
(***************************************************************************)
EXTENDS Integers, Sequences, FiniteSets, TLC

\* Bounds of the explored modules.
MaxFields == 3
MaxParams == 2
MaxTypes == 3
MaxFuncs == 2

----------------------------------------------------------------------------
\* Strings and options

NOTICE == "// File automatically generated by swift-bridge."

\* Option::None of an Option<Ident> / Option<&str>.
None == "<none>"

\* Rust's `{}` formatting of a usize.
FmtIdx(n) == ToString(n)

\* [String]::join(sep)
RECURSIVE Join(_, _)
Join(strs, sep) ==
    IF Len(strs) = 0 THEN ""
    ELSE IF Len(strs) = 1 THEN strs[1]
    ELSE strs[1] \o sep \o Join(Tail(strs), sep)

\* The elements of a sequence.
Range(s) == {s[k] : k \in 1..Len(s)}

----------------------------------------------------------------------------
\* Types of the bridge (BuiltInType and the types the module declares)

\* A field, parameter or return type.  kind is a BuiltInType variant ("U8",
\* "U16", "Bool", "RefSlice" with arg = the element's variant), "Opaque"
\* (arg = the type's name, not a BuiltInType) or "Default" (no return type,
\* syn::ReturnType::Default).
Ty(kind, arg) == [kind |-> kind, arg |-> arg]

U8 == Ty("U8", "")
U16 == Ty("U16", "")
Bool == Ty("Bool", "")
RefSlice(elem) == Ty("RefSlice", elem.kind)
OpaqueRef(name) == Ty("Opaque", name)
DefaultReturn == Ty("Default", "")

\* BuiltInType::new_with_type(..).is_some()
IsBuiltIn(ty) == ty.kind \in {"U8", "U16", "Bool", "RefSlice"}

\* BuiltInType::to_c of a primitive variant, by variant name.
PrimToC(kind) ==
    CASE kind = "U8" -> "uint8_t"
      [] kind = "U16" -> "uint16_t"
      [] kind = "Bool" -> "bool"

\* BuiltInType::to_c
ToC(ty) ==
    IF ty.kind = "RefSlice" THEN "struct __private__FfiSlice"
    ELSE PrimToC(ty.kind)

\* BuiltInType::c_include of a primitive variant, by variant name.
PrimCInclude(kind) ==
    CASE kind = "U8" -> "stdint.h"
      [] kind = "U16" -> "stdint.h"
      [] kind = "Bool" -> "stdbool.h"

\* BuiltInType::c_include
CInclude(ty) ==
    IF ty.kind = "RefSlice" THEN PrimCInclude(ty.arg)
    ELSE PrimCInclude(ty.kind)

\* Ord for str (byte-wise lexicographic): the strings that are compared, in
\* ascending order.
LexOrder == <<"bool", "stdbool.h", "stdint.h", "uint16_t", "uint8_t">>

LexRank(str) == CHOOSE k \in 1..Len(LexOrder) : LexOrder[k] = str
LexLess(a, b) == LexRank(a) < LexRank(b)

RECURSIVE SortedFrom(_, _)
SortedFrom(order, set) ==
    IF Len(order) = 0 THEN <<>>
    ELSE (IF Head(order) \in set THEN <<Head(order)>> ELSE <<>>)
         \o SortedFrom(Tail(order), set)

\* includes.iter().collect::<Vec<_>>() followed by includes.sort()
SortIncludes(set) == SortedFrom(LexOrder, set)

----------------------------------------------------------------------------
\* The module (SwiftBridgeModule): types and functions

\* HostLang
Rust == "Rust"
Swift == "Swift"
IsSwift(host_lang) == host_lang = Swift

\* A struct field: name is None for a tuple struct's field.
Field(name, ty) == [name |-> name, ty |-> ty]

\* BridgedType::Shared(SharedType::Struct(..))
Struct(name, swift_name, fields) ==
    [kind |-> "Struct", name |-> name, swift_name |-> swift_name,
     fields |-> fields, host_lang |-> None]

\* BridgedType::Opaque(..)
Opaque(name, host_lang) ==
    [kind |-> "Opaque", name |-> name, swift_name |-> None,
     fields |-> <<>>, host_lang |-> host_lang]

\* SharedStruct::swift_name_string
SwiftNameString(ty_struct) ==
    IF ty_struct.swift_name # None THEN ty_struct.swift_name ELSE ty_struct.name

\* The receiver forms of a method; None for a free function.
Receivers ==
    {"self", "&self", "&mut self", "self: T", "self: &T", "self: &mut T"}

Param(name, ty) == [name |-> name, ty |-> ty]

\* ParsedExternFn
Fn(name, host_lang, associated_type, receiver, params, ret) ==
    [name |-> name, host_lang |-> host_lang,
     associated_type |-> associated_type, receiver |-> receiver,
     params |-> params, ret |-> ret]

----------------------------------------------------------------------------
\* ParsedExternFn's header methods

\* ParsedExternFn::link_name
LinkName(func) ==
    IF func.associated_type # None
    THEN "__swift_bridge__$" \o func.associated_type \o "$" \o func.name
    ELSE "__swift_bridge__$" \o func.name

\* The C type of one typed parameter or of the return type.
ToCOrPointer(ty) == IF IsBuiltIn(ty) THEN ToC(ty) ELSE "void*"

\* ParsedExternFn::to_c_header_params
ToCHeaderParams(func) ==
    LET receiver == IF func.receiver # None THEN <<"void* self">> ELSE <<>>
        typed == [k \in 1..Len(func.params) |->
                    ToCOrPointer(func.params[k].ty) \o " " \o func.params[k].name]
        params == receiver \o typed
    IN  IF Len(params) = 0 THEN "void" ELSE Join(params, ", ")

\* ParsedExternFn::to_c_header_return
ToCHeaderReturn(func) ==
    IF func.ret.kind = "Default" THEN "void" ELSE ToCOrPointer(func.ret)

\* ParsedExternFn::c_includes, as the set of its tokens.
CIncludes(func) ==
    {CInclude(ty) : ty \in {t \in {func.ret} \cup {p.ty : p \in Range(func.params)} :
                              IsBuiltIn(t)}}

----------------------------------------------------------------------------
\* State

VARIABLES
    types,          \* self.types
    functions,      \* self.functions
    header,         \* `header`, as the sequence of its lines
    includes,       \* bookkeeping.includes
    slice_types,    \* bookkeeping.slice_types
    pc,             \* the loop generate_c_header_inner is in
    cursor,            \* position of the types / functions iterator
    slice_iter,     \* elements bookkeeping.slice_types.iter() has not yielded
    sorted,         \* elements of the sorted include vector not yet visited
    call,           \* 1 or 2: which call of generate_c_header this is
    first           \* the text the first call returned

vars == <<types, functions, header, includes, slice_types, pc, cursor,
          slice_iter, sorted, call, first>>

----------------------------------------------------------------------------
\* Declarations (generate_c_header_inner's loop bodies, declare_func)

\* FieldDecl with positional fields numbered from one.
FieldDeclFromOne(field, idx) ==
    LET name == "_" \o FmtIdx(idx + 1)
    IN  ToC(field.ty) \o " " \o (IF field.name # None THEN field.name ELSE name)

\* One field of a struct: `idx` is the field's zero based position.
FieldDecl(field, idx) ==
    LET name == "_" \o FmtIdx(idx)
    IN  ToC(field.ty) \o " " \o (IF field.name # None THEN field.name ELSE name)

\* The typedef of a shared struct.
StructDecl(ty_struct) ==
    LET name == SwiftNameString(ty_struct)
        fields == [k \in 1..Len(ty_struct.fields) |->
                     FieldDecl(ty_struct.fields[k], k - 1)]
        maybe_fields == IF Len(fields) > 0
                        THEN " { " \o Join(fields, "; ") \o "; }"
                        ELSE ""
    IN  "typedef struct " \o name \o maybe_fields \o " " \o name \o ";"

\* The includes the struct's fields insert into bookkeeping.includes.
StructIncludes(ty_struct) ==
    {CInclude(f.ty) : f \in Range(ty_struct.fields)}

\* OpaqueDecl without the `ty.host_lang.is_swift()` test.
OpaqueDeclAnyHost(ty) ==
    <<"typedef struct " \o ty.name \o " " \o ty.name \o ";",
      "void __swift_bridge__$" \o ty.name \o "$_free(void* self);">>

\* The lines an opaque type appends: none for a Swift type, else the typedef
\* and the declaration of its _free function.
OpaqueDecl(ty) ==
    IF IsSwift(ty.host_lang) THEN <<>>
    ELSE <<"typedef struct " \o ty.name \o " " \o ty.name \o ";",
           "void __swift_bridge__$" \o ty.name \o "$_free(void* self);">>

\* DeclareFunc with `ret` and `name` exchanged in the format string.
DeclareFuncNameFirst(func, bookkeeping) ==
    LET ret == ToCHeaderReturn(func)
        name == LinkName(func)
        params == ToCHeaderParams(func)
        slices == IF func.ret.kind = "RefSlice"
                  THEN bookkeeping.slice_types \cup {PrimToC(func.ret.arg)}
                  ELSE bookkeeping.slice_types
    IN  [declaration |-> name \o " " \o ret \o "(" \o params \o ");",
         bookkeeping |-> [includes |-> bookkeeping.includes \cup CIncludes(func),
                          slice_types |-> slices]]

\* declare_func: the declaration line and the bookkeeping after the call.
DeclareFunc(func, bookkeeping) ==
    LET ret == ToCHeaderReturn(func)
        name == LinkName(func)
        params == ToCHeaderParams(func)
        slices == IF func.ret.kind = "RefSlice"
                  THEN bookkeeping.slice_types \cup {PrimToC(func.ret.arg)}
                  ELSE bookkeeping.slice_types
    IN  [declaration |-> ret \o " " \o name \o "(" \o params \o ");",
         bookkeeping |-> [includes |-> bookkeeping.includes \cup CIncludes(func),
                          slice_types |-> slices]]

\* The typedef one element of bookkeeping.slice_types puts in front of header.
SliceTypedef(slice_ty) ==
    "typedef struct FfiSlice_" \o slice_ty \o " { " \o slice_ty
        \o "* start; uintptr_t len; } FfiSlice_" \o slice_ty \o ";"

\* The line one include puts in front of header.
IncludeLine(include) == "#include <" \o include \o ">"

----------------------------------------------------------------------------
\* Modules the generator is run on

FieldName(k) == "field" \o FmtIdx(k)
ParamName(k) == "arg" \o FmtIdx(k)
TypeName(k) == "Type" \o FmtIdx(k)
FnName(k) == "fn" \o FmtIdx(k)

FieldTys == {U8, Bool, RefSlice(U8)}
ParamTys == {U8, Bool, RefSlice(U8), OpaqueRef("SomeType")}
RetTys == {DefaultReturn, U8, Bool, RefSlice(U8), OpaqueRef("SomeType")}
SliceRetTys == {RefSlice(U8), RefSlice(U16), RefSlice(Bool)}

\* Every field list of n fields: each field named or positional.
FieldLists(n) ==
    {[k \in 1..n |-> Field(IF c[k].named THEN FieldName(k) ELSE None, c[k].ty)] :
        c \in [1..n -> [named : BOOLEAN, ty : FieldTys]]}

ParamLists(n) ==
    {[k \in 1..n |-> Param(ParamName(k), c[k])] : c \in [1..n -> ParamTys]}

\* One struct with any field list, no function.
StructModules ==
    {[types |-> <<Struct("Foo", sn, fs)>>, functions |-> <<>>] :
        sn \in {None, "FfiFoo"},
        fs \in UNION {FieldLists(n) : n \in 0..MaxFields}}

\* The type declared at position k of a list of types.
TypeChoices(k) ==
    {Struct(TypeName(k), None, <<>>),
     Struct(TypeName(k), None, <<Field(None, U8)>>),
     Opaque(TypeName(k), Rust),
     Opaque(TypeName(k), Swift)}

FreeFn(k, host_lang, ret) == Fn(FnName(k), host_lang, None, None, <<>>, ret)

\* Any list of types, followed by at most a Rust and a Swift function.
TypeListModules ==
    {[types |-> ts, functions |-> fns] :
        ts \in UNION {{t \in [1..n -> UNION {TypeChoices(k) : k \in 1..n}] :
                          \A k \in 1..n : t[k] \in TypeChoices(k)} : n \in 0..MaxTypes},
        fns \in {<<>>,
                 <<FreeFn(1, Rust, RefSlice(U8))>>,
                 <<FreeFn(1, Swift, U8), FreeFn(2, Rust, RefSlice(U8))>>}}

\* One opaque type and one function or method of any signature, both in the
\* same extern block.
SignatureModules ==
    {[types |-> <<Opaque("SomeType", h)>>,
      functions |-> <<Fn("foo", h, IF r = None THEN None ELSE "SomeType", r, ps, ret)>>] :
        h \in {Rust, Swift},
        r \in Receivers \cup {None},
        ps \in UNION {ParamLists(n) : n \in 0..MaxParams},
        ret \in RetTys}

\* Any list of free functions without parameters.
FnChoices(k) ==
    {FreeFn(k, h, ret) : h \in {Rust, Swift}, ret \in {DefaultReturn, U8} \cup SliceRetTys}

FnListModules ==
    {[types |-> <<>>, functions |-> fns] :
        fns \in UNION {{f \in [1..n -> UNION {FnChoices(k) : k \in 1..n}] :
                           \A k \in 1..n : f[k] \in FnChoices(k)} : n \in 0..MaxFuncs}}

Modules == StructModules \cup TypeListModules \cup SignatureModules \cup FnListModules

----------------------------------------------------------------------------
\* generate_c_header

\* `let mut header = "".to_string()` and the empty Bookkeeping.
Init ==
    /\ \E m \in Modules : types = m.types /\ functions = m.functions
    /\ header = <<>>
    /\ includes = {}
    /\ slice_types = {}
    /\ pc = "types"
    /\ cursor = 1
    /\ slice_iter = {}
    /\ sorted = <<>>
    /\ call = 1
    /\ first = <<>>

\* for ty in self.types.iter(): BridgedType::Shared(SharedType::Struct(..))
StructStep ==
    /\ pc = "types" /\ cursor <= Len(types)
    /\ types[cursor].kind = "Struct"
    /\ header' = Append(header, StructDecl(types[cursor]))
    /\ includes' = includes \cup StructIncludes(types[cursor])
    /\ cursor' = cursor + 1
    /\ UNCHANGED <<types, functions, slice_types, pc, slice_iter, sorted, call, first>>

\* for ty in self.types.iter(): BridgedType::Opaque(..)
OpaqueStep ==
    /\ pc = "types" /\ cursor <= Len(types)
    /\ types[cursor].kind = "Opaque"
    /\ header' = header \o OpaqueDecl(types[cursor])
    /\ cursor' = cursor + 1
    /\ UNCHANGED <<types, functions, includes, slice_types, pc, slice_iter, sorted,
                   call, first>>

\* self.types.iter() is exhausted: on to the loop over self.functions.
TypesDone ==
    /\ pc = "types" /\ cursor > Len(types)
    /\ pc' = "functions"
    /\ cursor' = 1
    /\ UNCHANGED <<types, functions, header, includes, slice_types, slice_iter,
                   sorted, call, first>>

\* FunctionStep with the declaration put in front of header.
FunctionStepInFront ==
    /\ pc = "functions" /\ cursor <= Len(functions)
    /\ IF IsSwift(functions[cursor].host_lang)
       THEN UNCHANGED <<header, includes, slice_types>>
       ELSE LET r == DeclareFunc(functions[cursor],
                                 [includes |-> includes, slice_types |-> slice_types])
            IN  /\ header' = <<r.declaration>> \o header
                /\ includes' = r.bookkeeping.includes
                /\ slice_types' = r.bookkeeping.slice_types
    /\ cursor' = cursor + 1
    /\ UNCHANGED <<types, functions, pc, slice_iter, sorted, call, first>>

\* for function in self.functions.iter()
FunctionStep ==
    /\ pc = "functions" /\ cursor <= Len(functions)
    /\ IF IsSwift(functions[cursor].host_lang)
       THEN UNCHANGED <<header, includes, slice_types>>
       ELSE LET r == DeclareFunc(functions[cursor],
                                 [includes |-> includes, slice_types |-> slice_types])
            IN  /\ header' = Append(header, r.declaration)
                /\ includes' = r.bookkeeping.includes
                /\ slice_types' = r.bookkeeping.slice_types
    /\ cursor' = cursor + 1
    /\ UNCHANGED <<types, functions, pc, slice_iter, sorted, call, first>>

\* self.functions.iter() is exhausted: bookkeeping.slice_types.iter() starts.
FunctionsDone ==
    /\ pc = "functions" /\ cursor > Len(functions)
    /\ pc' = "slices"
    /\ slice_iter' = slice_types
    /\ UNCHANGED <<types, functions, header, includes, slice_types, cursor, sorted,
                   call, first>>

\* SliceStep with slice_types a Vec: one typedef per function that inserted
\* the element.
SliceStepPerInsert ==
    /\ pc = "slices"
    /\ \E slice_ty \in slice_iter :
          LET inserts == {k \in 1..Len(functions) :
                            /\ ~IsSwift(functions[k].host_lang)
                            /\ functions[k].ret.kind = "RefSlice"
                            /\ PrimToC(functions[k].ret.arg) = slice_ty}
          IN  /\ header' = [k \in 1..Cardinality(inserts) |-> SliceTypedef(slice_ty)]
                              \o header
              /\ slice_iter' = slice_iter \ {slice_ty}
    /\ UNCHANGED <<types, functions, includes, slice_types, pc, cursor, sorted, call, first>>

\* for slice_ty in bookkeeping.slice_types.iter(): a HashSet yields its
\* elements in an arbitrary order.
SliceStep ==
    /\ pc = "slices"
    /\ \E slice_ty \in slice_iter :
          /\ header' = <<SliceTypedef(slice_ty)>> \o header
          /\ slice_iter' = slice_iter \ {slice_ty}
    /\ UNCHANGED <<types, functions, includes, slice_types, pc, cursor, sorted, call, first>>

\* The slice loop is over: the includes are collected and sorted.
SlicesDone ==
    /\ pc = "slices" /\ slice_iter = {}
    /\ pc' = "includes"
    /\ sorted' = SortIncludes(includes)
    /\ UNCHANGED <<types, functions, header, includes, slice_types, cursor, slice_iter,
                   call, first>>

\* for include in includes
IncludeStep ==
    /\ pc = "includes" /\ sorted # <<>>
    /\ header' = <<IncludeLine(Head(sorted))>> \o header
    /\ sorted' = Tail(sorted)
    /\ UNCHANGED <<types, functions, includes, slice_types, pc, cursor, slice_iter,
                   call, first>>

\* generate_c_header_inner returns header; generate_c_header puts the notice
\* line in front of it and returns.
Format ==
    /\ pc = "includes" /\ sorted = <<>>
    /\ header' = <<NOTICE>> \o header
    /\ pc' = "done"
    /\ UNCHANGED <<types, functions, includes, slice_types, cursor, slice_iter, sorted,
                   call, first>>

\* generate_c_header is called again on the same module.
CallAgain ==
    /\ pc = "done" /\ call = 1
    /\ first' = header
    /\ call' = 2
    /\ header' = <<>>
    /\ includes' = {}
    /\ slice_types' = {}
    /\ pc' = "types"
    /\ cursor' = 1
    /\ UNCHANGED <<types, functions, slice_iter, sorted>>

Next ==
    \/ StructStep
    \/ OpaqueStep
    \/ TypesDone
    \/ FunctionStep
    \/ FunctionsDone
    \/ SliceStep
    \/ SlicesDone
    \/ IncludeStep
    \/ Format
    \/ CallAgain

Spec == Init /\ [][Next]_vars

----------------------------------------------------------------------------
\* Vocabulary of the properties

Done == pc = "done"

RustTypes == {k \in 1..Len(types) : types[k].kind = "Opaque" /\ ~IsSwift(types[k].host_lang)}
Structs == {k \in 1..Len(types) : types[k].kind = "Struct"}
RustFns == {k \in 1..Len(functions) : ~IsSwift(functions[k].host_lang)}

\* Number of lines of text equal to line.
Count(text, line) == Cardinality({k \in 1..Len(text) : text[k] = line})

\* Concatenation of a sequence of sequences.
RECURSIVE Flatten(_)
Flatten(seqs) == IF Len(seqs) = 0 THEN <<>> ELSE Head(seqs) \o Flatten(Tail(seqs))

IncludeTokens == {"stdbool.h", "stdint.h"}
SliceReprs == {"bool", "uint16_t", "uint8_t"}

\* `#include <token>`
IncludeText(token) == "#include <" \o token \o ">"
\* `typedef struct FfiSlice_<T> { <T>* start; uintptr_t len; } FfiSlice_<T>;`
WrapperName(T) == "FfiSlice_" \o T
WrapperText(T) ==
    "typedef struct " \o WrapperName(T) \o " { " \o T \o "* start; uintptr_t len; } "
        \o WrapperName(T) \o ";"

IsIncludeLine(line) == \E t \in IncludeTokens : line = IncludeText(t)
IsWrapperLine(line) == \E T \in SliceReprs : line = WrapperText(T)
TokenOf(line) == CHOOSE t \in IncludeTokens : line = IncludeText(t)
ReprOf(line) == CHOOSE T \in SliceReprs : line = WrapperText(T)

IncludePositions == {k \in 1..Len(header) : IsIncludeLine(header[k])}
WrapperPositions == {k \in 1..Len(header) : IsWrapperLine(header[k])}

\* The declarations of the module's structs and Rust opaque types, in the
\* order of self.types, and of its Rust functions, in the order of
\* self.functions.
EntityDeclarations ==
    Flatten([k \in 1..Len(types) |->
                IF types[k].kind = "Struct" THEN <<StructDecl(types[k])>>
                ELSE OpaqueDecl(types[k])])
FunctionDeclarations ==
    Flatten([k \in 1..Len(functions) |->
                IF IsSwift(functions[k].host_lang) THEN <<>>
                ELSE <<DeclareFunc(functions[k],
                                   [includes |-> {}, slice_types |-> {}]).declaration>>])

\* Every type the walk maps for a Rust function or a struct field.
MappedTys ==
    UNION {{f.ty : f \in Range(types[k].fields)} : k \in Structs}
    \cup UNION {{p.ty : p \in Range(functions[k].params)} \cup {functions[k].ret} :
                    k \in RustFns}

----------------------------------------------------------------------------
\* C1: the returned text is the notice line, then the include lines, then the
\* slice wrapper definitions, then the declarations of the structs and Rust
\* opaque types in the order of the module's types, then the declarations of
\* the Rust functions in the order of the module's functions; each of those
\* declarations occurs exactly once.
C1_SectionsInOrder ==
    Done =>
        LET ni == Cardinality(IncludePositions)
            nw == Cardinality(WrapperPositions)
        IN  /\ header[1] = NOTICE
            /\ IncludePositions = 2..(1 + ni)
            /\ WrapperPositions = (2 + ni)..(1 + ni + nw)
            /\ SubSeq(header, 2 + ni + nw, Len(header))
                 = EntityDeclarations \o FunctionDeclarations
            /\ \A line \in Range(EntityDeclarations \o FunctionDeclarations) :
                  Count(header, line) = 1

C1_Witness ==
    /\ Done
    /\ Structs # {} /\ RustTypes # {} /\ RustFns # {}
    /\ Len(types) >= 2
    /\ IncludePositions # {} /\ WrapperPositions # {}
    /\ Len(header) >= 7

\* C2: a module whose opaque types and functions all belong to Swift, and
\* which has no struct, records no include and no slice type and its text is
\* the notice line alone.
ForeignOnly ==
    /\ \A k \in 1..Len(types) : types[k].kind = "Opaque" /\ IsSwift(types[k].host_lang)
    /\ \A k \in 1..Len(functions) : IsSwift(functions[k].host_lang)

C2_ForeignOnlyIsNotice ==
    ForeignOnly =>
        /\ includes = {} /\ slice_types = {}
        /\ header = IF Done THEN <<NOTICE>> ELSE <<>>

C2_Witness ==
    /\ Done /\ ForeignOnly
    /\ Len(types) >= 1
    /\ \E k \in 1..Len(functions) :
          /\ functions[k].ret.kind = "RefSlice"
          /\ \E p \in Range(functions[k].params) : p.ty = U8

C4_SameTextTwice == (Done /\ call = 2) => header = first

\* C5: the include lines directly follow the notice line, precede every
\* wrapper definition, and their tokens ascend from top to bottom.
C5_IncludesAscend ==
    Done =>
        /\ IncludePositions = 2..(1 + Cardinality(IncludePositions))
        /\ \A j, k \in IncludePositions :
              j < k => LexLess(TokenOf(header[j]), TokenOf(header[k]))

\* C6: the wrapper definitions follow the include lines, precede every
\* declaration, and their element representations ascend from top to bottom.
C6_WrappersAscend ==
    Done =>
        /\ WrapperPositions
             = (2 + Cardinality(IncludePositions))
                 ..(1 + Cardinality(IncludePositions) + Cardinality(WrapperPositions))
        /\ \A j, k \in WrapperPositions :
              j < k => LexLess(ReprOf(header[j]), ReprOf(header[k]))

\* C7: the declaration of a Rust function that returns a slice of T names, as
\* its return type, the wrapper FfiSlice_<T> that the text defines for T.
C7_ReturnNamesWrapper ==
    Done =>
        \A k \in RustFns :
            functions[k].ret.kind = "RefSlice" =>
                LET T == PrimToC(functions[k].ret.arg)
                IN  /\ WrapperText(T) \in Range(header)
                    /\ \E r \in {WrapperName(T), "struct " \o WrapperName(T),
                                 WrapperName(T) \o "*", "struct " \o WrapperName(T) \o "*"} :
                          (r \o " " \o LinkName(functions[k]) \o "("
                             \o ToCHeaderParams(functions[k]) \o ");") \in Range(header)

\* C8: a struct with no field is declared `typedef struct <Name> <Name>;`; one
\* with N >= 1 fields `typedef struct <Name> { f1; ...; fN; } <Name>;` where
\* each f is `<mapped type> <field name>` in declared order, a field without
\* a name being called `_<i>`, i its zero based position among all fields,
\* and <Name> the struct's Swift name.
DisplayName(s) == IF s.swift_name = None THEN s.name ELSE s.swift_name

RECURSIVE FieldsText(_, _)
FieldsText(fields, k) ==
    IF k > Len(fields) THEN ""
    ELSE ToC(fields[k].ty) \o " "
           \o (IF fields[k].name = None THEN "_" \o ToString(k - 1) ELSE fields[k].name)
           \o "; " \o FieldsText(fields, k + 1)

StructText(s) ==
    IF Len(s.fields) = 0
    THEN "typedef struct " \o DisplayName(s) \o " " \o DisplayName(s) \o ";"
    ELSE "typedef struct " \o DisplayName(s) \o " { " \o FieldsText(s.fields, 1)
           \o "} " \o DisplayName(s) \o ";"

C8_StructText ==
    \A k \in Structs :
        (pc # "types" \/ cursor > k) => Count(header, StructText(types[k])) = 1

C8_Witness ==
    /\ Done
    /\ \E k \in Structs :
          /\ Len(types[k].fields) >= 2
          /\ types[k].fields[1].name # None
          /\ types[k].fields[2].name = None
          /\ types[k].swift_name # None
    /\ "typedef struct FfiFoo { uint8_t field1; bool _1; } FfiFoo;" \in Range(header)

\* C9: a Rust method is declared with the link name
\* __swift_bridge__$<Entity>$<method> and the parameters `void* self` followed
\* by `<mapped type> <name>` for each declared parameter in order, whatever
\* the form of its receiver; a free function without parameters is declared
\* with the parameter list `void`.
RECURSIVE MoreParamsText(_, _)
MoreParamsText(params, k) ==
    IF k > Len(params) THEN ""
    ELSE ", " \o ToCOrPointer(params[k].ty) \o " " \o params[k].name
           \o MoreParamsText(params, k + 1)

MethodText(f) ==
    ToCHeaderReturn(f) \o " __swift_bridge__$" \o f.associated_type \o "$" \o f.name
        \o "(void* self" \o MoreParamsText(f.params, 1) \o ");"

FreeNoArgsText(f) == ToCHeaderReturn(f) \o " __swift_bridge__$" \o f.name \o "(void);"

C9_MethodText ==
    Done =>
        \A k \in RustFns :
            /\ functions[k].receiver # None =>
                  Count(header, MethodText(functions[k])) = 1
            /\ (functions[k].receiver = None /\ Len(functions[k].params) = 0) =>
                  Count(header, FreeNoArgsText(functions[k])) = 1

C9_Witness ==
    /\ Done
    /\ \E k \in RustFns :
          /\ functions[k].receiver = "self: &mut T"
          /\ Len(functions[k].params) >= 1
          /\ functions[k].params[1].ty = U8
          /\ functions[k].ret = Bool
    /\ "bool __swift_bridge__$SomeType$foo(void* self, uint8_t arg1);" \in Range(header)

\* C10: every slice type mapped for a struct field, for a parameter or for the
\* return type of a Rust function has its element representation in the
\* slice type set and its wrapper defined in the text, and the include of
\* every type mapped there is in the include set.
C10_MappedIsRecorded ==
    Done =>
        \A ty \in MappedTys :
            /\ ty.kind = "RefSlice" =>
                  /\ PrimToC(ty.arg) \in slice_types
                  /\ WrapperText(PrimToC(ty.arg)) \in Range(header)
            /\ IsBuiltIn(ty) => CInclude(ty) \in includes

====
